---- MODULE Spec2Model ----
(***************************************************************************)
(* EasyOLS (src/easy_ols.py): a wrapper that builds a statsmodels formula  *)
(* from column names, fits an OLS model and narrates / plots the result.   *)
(*                                                                         *)
(* Python strings are TLA+ strings; every other Python value is a record   *)
(* tagged with its type, so that isinstance() is a test on the tag.        *)
(* Floats are fixed-point integers: coefficients in thousandths, p-values  *)
(* and confidences in ten-thousandths.  Dataset columns hold an opaque     *)
(* description of their content ("obs:<col>" for observed data).           *)
(* The constructor is modelled step by step (pc), one action per private   *)
(* method it calls, because the order of those calls is itself specified.  *)
(***************************************************************************)
EXTENDS Integers, Sequences, FiniteSets, TLC

VARIABLES pc, args, df, df_at_construction,
          dependent_var, independent_vars, formula, model,
          internal_dependent_var, internal_independent_vars,
          coefficients, confidences,
          lastCall, raised, out, plots

vars == <<pc, args, df, df_at_construction,
          dependent_var, independent_vars, formula, model,
          internal_dependent_var, internal_independent_vars,
          coefficients, confidences,
          lastCall, raised, out, plots>>

(* ------------------------------ bounds --------------------------------- *)
\* longest independent_vars list that is tried
MaxVars == 3
\* number of plot() calls that write the predicted column
MaxPlots == 2

(* --------------------------- Python values ----------------------------- *)
NoneV == [t |-> "None"]
\* an attribute that has not been assigned (the object has no such field)
Unset == [t |-> "unset"]
Str(s) == [t |-> "str", v |-> s]
IntV(n) == [t |-> "int", v |-> n]
List(xs) == [t |-> "list", v |-> xs]
DataFrame(cols) == [t |-> "DataFrame", cols |-> [c \in cols |-> "obs:" \o c]]

IsStr(x) == x.t = "str"
IsIterable(x) == x.t \in {"str", "list"}
IsDataFrame(x) == x.t = "DataFrame"

(* ------------------------- generic helpers ----------------------------- *)
RECURSIVE Join(_, _)
Join(sep, xs) ==
    IF Len(xs) = 0 THEN ""
    ELSE IF Len(xs) = 1 THEN xs[1]
    ELSE xs[1] \o sep \o Join(sep, Tail(xs))

RECURSIVE SplitFrom(_, _, _, _, _)
SplitFrom(s, c, i, inq, cur) ==
    IF i > Len(s) THEN <<cur>>
    ELSE LET ch == SubSeq(s, i, i) IN
         IF ch = "\"" THEN SplitFrom(s, c, i + 1, ~inq, cur \o ch)
         ELSE IF ch = c /\ ~inq THEN <<cur>> \o SplitFrom(s, c, i + 1, inq, "")
         ELSE SplitFrom(s, c, i + 1, inq, cur \o ch)

\* the pieces of s between the occurrences of c that lie outside "..."
SplitTop(s, c) == SplitFrom(s, c, 1, FALSE, "")

RECURSIVE Trim(_)
Trim(s) ==
    IF Len(s) = 0 THEN s
    ELSE IF SubSeq(s, 1, 1) = " " THEN Trim(SubSeq(s, 2, Len(s)))
    ELSE IF SubSeq(s, Len(s), Len(s)) = " " THEN Trim(SubSeq(s, 1, Len(s) - 1))
    ELSE s

RECURSIVE Uniqueify(_)
Uniqueify(xs) ==
    IF Len(xs) = 0 THEN <<>>
    ELSE LET front == Uniqueify(SubSeq(xs, 1, Len(xs) - 1))
             last == xs[Len(xs)]
         IN IF \E i \in 1..Len(front) : front[i] = last THEN front
            ELSE Append(front, last)

(* ----------------------------- inputs ---------------------------------- *)
AllCols == {"y", "Foo Bar", "x", "a", "b", "c", "Baz + Qux", "Intercept", "",
            "Predicted y"}

DepArgs == {Str("y"), Str("Foo Bar"), IntV(5), NoneV}

ListElems == {Str("a"), Str("b"), Str("c"), NoneV}

IndArgs ==
    {Str("x"), Str("Predicted y"), Str("Baz + Qux"), Str("Intercept"), Str(""),
     IntV(7), NoneV}
    \cup {List(xs) : xs \in UNION {[1..n -> ListElems] : n \in 0..MaxVars}}

DfArgs == {DataFrame(AllCols), DataFrame(AllCols \ {"Predicted y"}),
           DataFrame({"y", "x"}), NoneV}

\* what one coefficient of a fit can be: [coef (1/1000), pvalue (1/10000)]
FitValues == {[coef |-> 2500, pvalue |-> 0],
              [coef |-> -1200, pvalue |-> 312],
              [coef |-> 0, pvalue |-> 10000],
              [coef |-> 4, pvalue |-> 9871],
              [coef |-> -4, pvalue |-> 5000]}

(* ------------------------- __init__ validation ------------------------- *)
AllStr(iv) == \A i \in 1..Len(iv.v) : IsStr(iv.v[i])

\* variant: the independent_vars check made before the dependent_var check
Validate_IndependentFirst(d, iv, f) ==
    IF ~IsStr(iv) /\ ~IsIterable(iv) THEN "TypeError: object is not iterable"
    ELSE IF ~IsStr(iv) /\ ~AllStr(iv)
         THEN "ValueError: independent_vars must be a string or an array of strings"
    ELSE IF ~IsStr(d) THEN "ValueError: dependent_var must be a string"
    ELSE IF ~IsDataFrame(f) THEN "ValueError: df must be a DataFrame"
    ELSE ""

\* the exception the argument checks end with, "" when they all pass
Validate(d, iv, f) ==
    IF ~IsStr(d) THEN "ValueError: dependent_var must be a string"
    ELSE IF ~IsStr(iv) /\ ~IsIterable(iv) THEN "TypeError: object is not iterable"
    ELSE IF ~IsStr(iv) /\ ~AllStr(iv)
         THEN "ValueError: independent_vars must be a string or an array of strings"
    ELSE IF ~IsDataFrame(f) THEN "ValueError: df must be a DataFrame"
    ELSE ""

(* --------------------------- __create_formula -------------------------- *)
Q(name) == "Q(\"" \o name \o "\")"

\* variant: names quoted with ' instead of "
CreateFormula_SingleQuotes(d, iv) ==
    LET dependent_part == "Q('" \o d.v \o "')"
        independent_part ==
            IF IsStr(iv) THEN "Q('" \o iv.v \o "')"
            ELSE Join(" + ", [i \in 1..Len(iv.v) |-> "Q('" \o iv.v[i].v \o "')"])
    IN dependent_part \o " ~ " \o independent_part

CreateFormula(d, iv) ==
    LET dependent_part == Q(d.v)
        independent_part ==
            IF IsStr(iv) THEN Q(iv.v)
            ELSE Join(" + ", [i \in 1..Len(iv.v) |-> Q(iv.v[i].v)])
    IN dependent_part \o " ~ " \o independent_part

(* ----------------------------------------------------------------------- *)
(* statsmodels.formula.api.ols(formula, df): the formula is split at the   *)
(* top-level "~" and "+", each term must be Q("<column of df>"), repeated  *)
(* terms are kept once ("+" is a union of terms) and an intercept is       *)
(* prepended.  All columns are numeric, so a term is one design column.    *)
(* ----------------------------------------------------------------------- *)
IsQuoted(term) ==
    /\ Len(term) >= 5
    /\ SubSeq(term, 1, 2) = "Q("
    /\ SubSeq(term, 3, 3) \in {"\"", "'"}
    /\ SubSeq(term, Len(term) - 1, Len(term) - 1) = SubSeq(term, 3, 3)
    /\ SubSeq(term, Len(term), Len(term)) = ")"

ColumnOf(term) == SubSeq(term, 4, Len(term) - 2)

TermOk(term, f) == IsQuoted(term) /\ ColumnOf(term) \in DOMAIN f.cols

Sides(fml) == SplitTop(fml, "~")

RhsTerms(fml) ==
    LET parts == SplitTop(Sides(fml)[2], "+")
    IN [i \in 1..Len(parts) |-> Trim(parts[i])]

FormulaOk(fml, f) ==
    /\ Len(Sides(fml)) = 2
    /\ TermOk(Trim(Sides(fml)[1]), f)
    /\ \A i \in 1..Len(RhsTerms(fml)) : TermOk(RhsTerms(fml)[i], f)

ols(fml, f) ==
    [t |-> "OLS",
     endog_names |-> Trim(Sides(fml)[1]),
     exog_names |-> <<"Intercept">> \o Uniqueify(RhsTerms(fml))]

(* ------------------------------ __format_var --------------------------- *)
\* variant: one character too few stripped at the end
FormatVar_ShortStrip(var) ==
    IF var = "Intercept" THEN var
    ELSE SubSeq(var, 3 + 1, Len(var) - 1)

FormatVar(var) ==
    IF var = "Intercept" THEN var
    ELSE SubSeq(var, 3 + 1, Len(var) - 2)

(* -------------------------------- Init --------------------------------- *)
Init ==
    /\ pc = "new"
    /\ args \in [dependent_var : DepArgs, independent_vars : IndArgs]
    /\ df \in DfArgs
    /\ df_at_construction = df
    /\ dependent_var = Unset
    /\ independent_vars = Unset
    /\ formula = Unset
    /\ model = Unset
    /\ internal_dependent_var = Unset
    /\ internal_independent_vars = Unset
    /\ coefficients = Unset
    /\ confidences = Unset
    /\ lastCall = "none"
    /\ raised = ""
    /\ out = <<>>
    /\ plots = 0

\* EasyOLS.__init__, lines 46-69: argument checks and attribute set-up
Construct ==
    /\ pc = "new"
    /\ lastCall' = "__init__"
    /\ LET err == Validate(args.dependent_var, args.independent_vars, df) IN
       IF err # ""
       THEN /\ raised' = err
            /\ pc' = "raised"
            /\ UNCHANGED <<dependent_var, independent_vars, formula, model,
                           internal_dependent_var, internal_independent_vars,
                           coefficients, confidences>>
       ELSE /\ raised' = ""
            /\ pc' = "__create_formula"
            /\ dependent_var' = args.dependent_var
            /\ independent_vars' = args.independent_vars
            /\ formula' = NoneV
            /\ model' = NoneV
            /\ internal_dependent_var' = NoneV
            /\ internal_independent_vars' = NoneV
            /\ coefficients' = NoneV
            /\ confidences' = NoneV
    /\ UNCHANGED <<args, df, df_at_construction, out, plots>>

\* variant: the model is fitted before the names are extracted
InitSteps_FitFirst == <<"__create_formula", "__define_model", "__fit", "__extract_var_names">>

\* the private methods __init__ calls, in the order of lines 72-75
InitSteps == <<"__create_formula", "__define_model", "__extract_var_names", "__fit">>

StepIndex(step) == CHOOSE i \in 1..Len(InitSteps) : InitSteps[i] = step

\* where the constructor goes after a step: the next call, or it returns
After(step) ==
    IF StepIndex(step) = Len(InitSteps) THEN "ready"
    ELSE InitSteps[StepIndex(step) + 1]

\* EasyOLS.__create_formula, lines 77-113
CreateFormulaStep ==
    /\ pc = "__create_formula"
    /\ formula' = Str(CreateFormula(dependent_var, independent_vars))
    /\ pc' = After("__create_formula")
    /\ UNCHANGED <<args, df, df_at_construction, dependent_var, independent_vars,
                   model, internal_dependent_var, internal_independent_vars,
                   coefficients, confidences, lastCall, raised, out, plots>>

\* EasyOLS.__define_model, lines 116-122; ols() raises on a formula it cannot
\* parse or evaluate against df
DefineModel ==
    /\ pc = "__define_model"
    /\ IF IsStr(formula) /\ FormulaOk(formula.v, df)
       THEN /\ model' = ols(formula.v, df)
            /\ pc' = After("__define_model")
            /\ UNCHANGED raised
       ELSE /\ raised' = "PatsyError"
            /\ pc' = "raised"
            /\ UNCHANGED model
    /\ UNCHANGED <<args, df, df_at_construction, dependent_var, independent_vars,
                   formula, internal_dependent_var, internal_independent_vars,
                   coefficients, confidences, lastCall, out, plots>>

\* EasyOLS.__extract_var_names, lines 124-132; only the unfit model object
\* has endog_names / exog_names
ExtractVarNames ==
    /\ pc = "__extract_var_names"
    /\ IF model.t = "OLS"
       THEN /\ internal_dependent_var' = Str(model.endog_names)
            /\ internal_independent_vars' = List(model.exog_names)
            /\ pc' = After("__extract_var_names")
            /\ UNCHANGED raised
       ELSE /\ raised' = "AttributeError"
            /\ pc' = "raised"
            /\ UNCHANGED <<internal_dependent_var, internal_independent_vars>>
    /\ UNCHANGED <<args, df, df_at_construction, dependent_var, independent_vars,
                   formula, model, coefficients, confidences, lastCall, out, plots>>

\* the fitted results object: one coefficient and p-value per design column
Results(m, fit) ==
    [t |-> "Results",
     params |-> [i \in 1..Len(m.exog_names) |-> fit[i].coef],
     pvalues |-> [i \in 1..Len(m.exog_names) |-> fit[i].pvalue]]

Series(xs) == [t |-> "Series", v |-> xs]

\* EasyOLS.__fit, lines 134-141
Fit ==
    /\ pc = "__fit"
    /\ IF model.t = "OLS"
       THEN \E fit \in [1..Len(model.exog_names) -> FitValues] :
              LET res == Results(model, fit) IN
              /\ model' = res
              /\ coefficients' = Series(res.params)
              /\ confidences' = Series([i \in 1..Len(res.pvalues) |-> 10000 - res.pvalues[i]])
              /\ pc' = After("__fit")
              /\ UNCHANGED raised
       ELSE /\ raised' = "AttributeError"
            /\ pc' = "raised"
            /\ UNCHANGED <<model, coefficients, confidences>>
    /\ UNCHANGED <<args, df, df_at_construction, dependent_var, independent_vars,
                   formula, internal_dependent_var, internal_independent_vars,
                   lastCall, out, plots>>

(* ------------------------- number formatting --------------------------- *)
Abs(n) == IF n < 0 THEN -n ELSE n

TwoDigits(n) == IF n < 10 THEN "0" \o ToString(n) ELSE ToString(n)

\* "{:.2f}".format(x) for x = m/1000: round to hundredths (half to even; the
\* values drawn are never exact ties), the sign of x is kept even on "-0.00"
Fmt2f(m) ==
    LET q == Abs(m) \div 10
        r == Abs(m) % 10
        h == IF r > 5 \/ (r = 5 /\ q % 2 = 1) THEN q + 1 ELSE q
    IN (IF m < 0 THEN "-" ELSE "") \o ToString(h \div 100) \o "." \o TwoDigits(h % 100)

\* '{:.2%}'.format(x) for x = c/10000: x * 100 with two decimals and "%"
FmtPct(c) ==
    (IF c < 0 THEN "-" ELSE "") \o ToString(Abs(c) \div 100) \o "."
        \o TwoDigits(Abs(c) % 100) \o "%"

DigitVal(ch) ==
    CASE ch = "0" -> 0 [] ch = "1" -> 1 [] ch = "2" -> 2 [] ch = "3" -> 3
      [] ch = "4" -> 4 [] ch = "5" -> 5 [] ch = "6" -> 6 [] ch = "7" -> 7
      [] ch = "8" -> 8 [] ch = "9" -> 9

RECURSIVE DigitsValue(_)
DigitsValue(s) ==
    IF Len(s) = 0 THEN 0
    ELSE LET ch == SubSeq(s, Len(s), Len(s))
             front == SubSeq(s, 1, Len(s) - 1)
         IN IF ch = "." THEN DigitsValue(front)
            ELSE 10 * DigitsValue(front) + DigitVal(ch)

\* float(s) for a string s written by Fmt2f, in hundredths
ParseFloat(s) ==
    IF Len(s) > 0 /\ SubSeq(s, 1, 1) = "-" THEN -DigitsValue(SubSeq(s, 2, Len(s)))
    ELSE DigitsValue(s)

(* -------------------------------- summary ------------------------------ *)
\* variant: the intercept is left out of the count
AreMultiple_ExcludingIntercept(names) == Len(names) - 1 > 2

\* areMultipleIndependentVars, lines 163-166; names includes "Intercept"
AreMultiple(names) == Len(names) > 2

\* variant: zero counted as positive
SignPrefix_NonNegative(coefficient) == IF ParseFloat(coefficient) >= 0 THEN "+" ELSE ""

SignPrefix(coefficient) == IF ParseFloat(coefficient) > 0 THEN "+" ELSE ""

\* variant: every sentence reads the values at position 0
Sentence_FirstValues(i, names, dv, multiple, coefs, confs) ==
    LET confidence == FmtPct(confs[1])
        coefficient == Fmt2f(coefs[1])
    IN IF i = 0
       THEN IF multiple
            THEN "This model is " \o confidence
                 \o " confident when all independent variables are 0, the average value of "
                 \o dv \o " is " \o coefficient \o "."
            ELSE "This model is " \o confidence \o " confident when " \o names[i + 2]
                 \o " is 0, the average value of " \o dv \o " is " \o coefficient \o "."
       ELSE "This model is " \o confidence \o " confident increasing " \o names[i + 1]
            \o " by 1 will, on average, change " \o dv \o " by "
            \o SignPrefix(coefficient) \o coefficient
            \o (IF multiple THEN " when all other independent variables are held constant."
                ELSE ".")

\* the sentence printed by iteration i (from 0) of the loop of lines 171-194
Sentence(i, names, dv, multiple, coefs, confs) ==
    LET confidence == FmtPct(confs[i + 1])
        coefficient == Fmt2f(coefs[i + 1])
    IN IF i = 0
       THEN IF multiple
            THEN "This model is " \o confidence
                 \o " confident when all independent variables are 0, the average value of "
                 \o dv \o " is " \o coefficient \o "."
            ELSE "This model is " \o confidence \o " confident when " \o names[i + 2]
                 \o " is 0, the average value of " \o dv \o " is " \o coefficient \o "."
       ELSE "This model is " \o confidence \o " confident increasing " \o names[i + 1]
            \o " by 1 will, on average, change " \o dv \o " by "
            \o SignPrefix(coefficient) \o coefficient
            \o (IF multiple THEN " when all other independent variables are held constant."
                ELSE ".")

\* the lines printed before the loop, lines 155-169
Preamble(names, multiple) ==
    <<"<statsmodels summary>", "\nConclusions:">>
    \o (IF multiple THEN <<"Independent variables: " \o Join(", ", Tail(names))>>
        ELSE <<>>)

\* EasyOLS.summary, lines 153-194; out is what this call printed
Summary ==
    /\ pc = "ready"
    /\ lastCall' = "summary"
    /\ LET dv == FormatVar(internal_dependent_var.v)
           names == [i \in 1..Len(internal_independent_vars.v) |->
                        FormatVar(internal_independent_vars.v[i])]
           multiple == AreMultiple(names)
       IN IF ~multiple /\ Len(names) < 2
          THEN /\ out' = Preamble(names, multiple)
               /\ raised' = "IndexError"
          ELSE /\ out' = Preamble(names, multiple)
                         \o [k \in 1..Len(names) |->
                               Sentence(k - 1, names, dv, multiple,
                                        coefficients.v, confidences.v)]
               /\ raised' = ""
    /\ UNCHANGED <<pc, args, df, df_at_construction, dependent_var, independent_vars,
                   formula, model, internal_dependent_var, internal_independent_vars,
                   coefficients, confidences, plots>>

(* --------------------------------- plot -------------------------------- *)
\* variant: the predictions are stored under the dependent variable's name
PredictedColumn_Overwrite(dv) == dv

PredictedColumn(dv) == "Predicted " \o dv

\* variant: two independent variables still plotted
PlotRejects_MoreThanTwo(iv) == ~IsStr(iv) /\ IsIterable(iv) /\ Len(iv.v) > 2

\* lines 201-202
PlotRejects(iv) == ~IsStr(iv) /\ IsIterable(iv) /\ Len(iv.v) > 1

\* df_pred[self.independent_vars]: the content of the selected column(s)
Selected(f, iv) ==
    IF IsStr(iv) THEN f.cols[iv.v]
    ELSE Join(",", [i \in 1..Len(iv.v) |-> f.cols[iv.v[i].v]])

\* self.model.predict(exog): the fitted values for that content
Predict(content) == "pred(" \o content \o ")"

\* df[col] = content, in place: the column is added or overwritten
SetColumn(f, col, content) ==
    [f EXCEPT !.cols = [c \in DOMAIN f.cols \cup {col} |->
                            IF c = col THEN content ELSE f.cols[c]]]

\* EasyOLS.plot, lines 196-221 (the rendering itself keeps no state)
Plot ==
    /\ pc = "ready"
    /\ lastCall' = "plot"
    /\ IF PlotRejects(independent_vars)
       THEN /\ raised' = "ValueError: Cannot create plot for models with multiple independent variables."
            /\ UNCHANGED <<df, plots>>
       ELSE /\ plots < MaxPlots
            /\ df' = SetColumn(df, PredictedColumn(dependent_var.v),
                               Predict(Selected(df, independent_vars)))
            /\ plots' = plots + 1
            /\ raised' = ""
    /\ UNCHANGED <<pc, args, df_at_construction, dependent_var, independent_vars,
                   formula, model, internal_dependent_var, internal_independent_vars,
                   coefficients, confidences, out>>

Next ==
    \/ Construct
    \/ CreateFormulaStep
    \/ DefineModel
    \/ ExtractVarNames
    \/ Fit
    \/ Summary
    \/ Plot

Spec == Init /\ [][Next]_vars

(* ======================== properties of the wrapper ==================== *)
StartsWith(s, p) == Len(s) >= Len(p) /\ SubSeq(s, 1, Len(p)) = p
EndsWith(s, p) == Len(s) >= Len(p) /\ SubSeq(s, Len(s) - Len(p) + 1, Len(s)) = p
Contains(s, sub) ==
    \E i \in 1..(Len(s) - Len(sub) + 1) : SubSeq(s, i, i + Len(sub) - 1) = sub

\* the number of independent variables a wrapper was configured with
NumIndep(iv) == IF IsStr(iv) THEN 1 ELSE Len(iv.v)

Escaped(name) == "Q" \o "(" \o "\"" \o name \o "\"" \o ")"

RECURSIVE EscapedTerms(_)
EscapedTerms(vs) ==
    IF Len(vs) = 1 THEN Escaped(vs[1].v)
    ELSE EscapedTerms(SubSeq(vs, 1, Len(vs) - 1)) \o " + " \o Escaped(vs[Len(vs)].v)

C1_Built ==
    IsStr(formula) =>
        /\ IsStr(independent_vars) =>
             formula.v = Escaped(dependent_var.v) \o " ~ " \o Escaped(independent_vars.v)
        /\ (~IsStr(independent_vars) /\ Len(independent_vars.v) >= 2) =>
             /\ formula.v = Escaped(dependent_var.v) \o " ~ "
                              \o EscapedTerms(independent_vars.v)
             /\ Len(SplitTop(formula.v, "+")) = Len(independent_vars.v)
        /\ ~Contains(formula.v, "'")

C1_Kept == IsStr(formula) => formula' = formula

\* C1: the formula built at construction is exactly Q("d") ~ T, T being
\* Q("v") for a single string v and the terms Q("v1") ... Q("vN") joined by
\* " + " in declaration order for a sequence of N >= 2, double quotes only;
\* once built the formula never changes.
C1_Formula == [](C1_Built) /\ [][C1_Kept]_vars

C1_Witness ==
    /\ pc = "ready"
    /\ lastCall = "summary"
    /\ independent_vars = List(<<Str("a"), Str("b"), Str("c")>>)
    /\ formula = Str("Q(\"Foo Bar\") ~ Q(\"a\") + Q(\"b\") + Q(\"c\")")

NothingSet ==
    /\ dependent_var = Unset /\ independent_vars = Unset
    /\ formula = Unset /\ model = Unset
    /\ internal_dependent_var = Unset /\ internal_independent_vars = Unset
    /\ coefficients = Unset /\ confidences = Unset

\* C2: with a dependent_var that is not a string the constructor raises
\* ValueError whatever the other arguments are, and no formula, model, names,
\* coefficients or confidences are ever set.
C2_Formula ==
    ~IsStr(args.dependent_var) =>
        /\ pc \in {"new", "raised"}
        /\ NothingSet
        /\ pc = "raised" => raised = "ValueError: dependent_var must be a string"

C2_Witness ==
    /\ pc = "raised"
    /\ args.dependent_var = IntV(5)
    /\ args.independent_vars = IntV(7)
    /\ df = NoneV
    /\ raised = "ValueError: dependent_var must be a string"

ValidIndependent(iv) == IsStr(iv) \/ (iv.t = "list" /\ AllStr(iv))

\* C3: with a string dependent_var, an independent_vars that is neither a
\* string nor a sequence of strings (a number and None included) makes the
\* constructor fail with ValueError and no other error type; so does a df
\* that is not a DataFrame.
C3_Claim ==
    (lastCall = "__init__" /\ IsStr(args.dependent_var)) =>
        /\ ~ValidIndependent(args.independent_vars) =>
             (pc = "raised" /\ StartsWith(raised, "ValueError"))
        /\ (ValidIndependent(args.independent_vars) /\ ~IsDataFrame(df)) =>
             (pc = "raised" /\ raised = "ValueError: df must be a DataFrame")

PlotError == "ValueError: Cannot create plot for models with multiple independent variables."

\* C4: plot() raises the validation error exactly on the wrappers configured
\* with a number of independent variables other than one.
C4_Formula ==
    lastCall = "plot" => (raised = PlotError <=> NumIndep(independent_vars) # 1)

C4_Witness ==
    /\ lastCall = "plot"
    /\ independent_vars = List(<<Str("a"), Str("b"), Str("c")>>)
    /\ raised = PlotError

(* ------------------------- what summary() printed ---------------------- *)
Names == internal_independent_vars.v

DeclaredVars(iv) == IF IsStr(iv) THEN <<iv.v>> ELSE [i \in 1..Len(iv.v) |-> iv.v[i].v]

Distinct(xs) == \A i, j \in 1..Len(xs) : i # j => xs[i] # xs[j]

SummaryDone == lastCall = "summary" /\ raised = ""

SentenceLines == {i \in 1..Len(out) : StartsWith(out[i], "This model is ")}

\* the k-th of the sentences that end the output
SentenceLine(k) == out[Len(out) - Len(Names) + k]

HeaderPrinted == \E i \in 1..Len(out) : StartsWith(out[i], "Independent variables: ")

HeldConstant == " when all other independent variables are held constant."

C6_Claim == SummaryDone => (HeaderPrinted <=> Len(Names) - 1 > 2)

\* C6: multiple is true iff the total number of named variables, Intercept
\* included, is more than 2, that is with two or more independent variables:
\* then the header and the "all independent variables are 0," and "held
\* constant" wording are printed, and with one independent variable not.
C6_Formula ==
    SummaryDone =>
        LET multiple == Len(Names) >= 3 IN
        /\ HeaderPrinted <=> multiple
        /\ multiple => StartsWith(out[3], "Independent variables: ")
        /\ Contains(SentenceLine(1), " confident when all independent variables are 0,")
             <=> multiple
        /\ \A k \in 2..Len(Names) : EndsWith(SentenceLine(k), HeldConstant) <=> multiple
        /\ (Distinct(DeclaredVars(independent_vars)) /\ NumIndep(independent_vars) = 2)
             => out[3] = "Independent variables: "
                           \o DeclaredVars(independent_vars)[1] \o ", "
                           \o DeclaredVars(independent_vars)[2]

C6_Witness ==
    /\ SummaryDone
    /\ independent_vars = List(<<Str("a"), Str("b")>>)
    /\ HeaderPrinted
    /\ EndsWith(SentenceLine(3), HeldConstant)

HasPlus(line) == Contains(line, " by +")

\* C7 as stated: "+" exactly when the fitted coefficient is positive
C7_Claim ==
    SummaryDone =>
        \A k \in 2..Len(Names) : HasPlus(SentenceLine(k)) <=> coefficients.v[k] > 0

\* C7: in every slope sentence the coefficient, rendered with 2 decimals,
\* has a "+" in front exactly when the rendered (rounded) value is greater
\* than zero: 2.50 gives "+2.50", -1.20 gives "-1.20", 0.00 gives "0.00", and
\* a positive coefficient that rounds to zero gives "0.00" as well.
C7_Formula ==
    SummaryDone =>
        \A k \in 2..Len(Names) :
            LET c == coefficients.v[k]
                line == SentenceLine(k)
            IN /\ c > 5 => HasPlus(line)
               /\ c < 5 => ~HasPlus(line)
               /\ c = 2500 => Contains(line, " by +2.50")
               /\ c = -1200 => Contains(line, " by -1.20")
               /\ c = 0 => Contains(line, " by 0.00")
               /\ (c > 0 /\ c < 5) => Contains(line, " by 0.00")

C7_Witness ==
    /\ SummaryDone
    /\ independent_vars = Str("x")
    /\ coefficients.v[2] = 4
    /\ EndsWith(SentenceLine(2), " by 0.00.")

\* C8: stripping the wrapper from the name Q("s") the formula gave a column
\* s yields s again, for names with spaces, punctuation, the empty name and
\* the name Intercept; the bare name Intercept passes through unchanged.
C8_Formula ==
    pc = "ready" =>
        /\ FormatVar(internal_dependent_var.v) = dependent_var.v
        /\ FormatVar(Names[1]) = "Intercept"
        /\ \A i \in 2..Len(Names) :
             \E j \in 1..NumIndep(independent_vars) :
                /\ Names[i] = Escaped(DeclaredVars(independent_vars)[j])
                /\ FormatVar(Names[i]) = DeclaredVars(independent_vars)[j]
        /\ (SummaryDone /\ IsStr(independent_vars)) =>
             /\ Contains(SentenceLine(1), " confident when " \o independent_vars.v \o " is 0,")
             /\ Contains(SentenceLine(2), " confident increasing " \o independent_vars.v
                                            \o " by 1 will, on average, change "
                                            \o dependent_var.v \o " by ")

C8_Witness ==
    /\ SummaryDone
    /\ dependent_var = Str("Foo Bar")
    /\ independent_vars = Str("Intercept")
    /\ Names = <<"Intercept", "Q(\"Intercept\")">>
    /\ Contains(SentenceLine(2), " increasing Intercept by 1 ")

(* --------------------------- frame and ordering ------------------------ *)
Attributes == <<dependent_var, independent_vars, formula, model,
                internal_dependent_var, internal_independent_vars,
                coefficients, confidences>>

\* C9 as stated: every column of the dataset keeps its construction values
C9_Claim ==
    pc = "ready" =>
        \A c \in DOMAIN df_at_construction.cols : df.cols[c] = df_at_construction.cols[c]

C9_Columns ==
    pc = "ready" =>
        /\ DOMAIN df_at_construction.cols \subseteq DOMAIN df.cols
        /\ DOMAIN df.cols \subseteq
             DOMAIN df_at_construction.cols \cup {"Predicted " \o dependent_var.v}
        /\ \A c \in DOMAIN df_at_construction.cols :
             c # "Predicted " \o dependent_var.v => df.cols[c] = df_at_construction.cols[c]
        /\ (lastCall = "plot" /\ raised = "") =>
             /\ "Predicted " \o dependent_var.v \in DOMAIN df.cols
             /\ StartsWith(df.cols["Predicted " \o dependent_var.v], "pred(")

C9_Step ==
    pc = "ready" =>
        /\ Attributes' = Attributes
        /\ raised' = PlotError => df' = df
        /\ lastCall' = "summary" => df' = df

\* C9: summary() and plot() leave dependent_var, independent_vars, formula,
\* the fitted model, the names, coefficients and confidences unchanged; the
\* only change to the dataset is the column "Predicted {dependent_var}" that
\* plot() writes: every other column the dataset had at construction keeps
\* its values (a column of that name present at construction is overwritten),
\* and a plot() that raises the validation error leaves the dataset unchanged.
C9_Formula == [](C9_Columns) /\ [][C9_Step]_vars

C9_Witness ==
    /\ lastCall = "plot"
    /\ raised = ""
    /\ dependent_var = Str("y")
    /\ "Predicted y" \notin DOMAIN df_at_construction.cols
    /\ df.cols["Predicted y"] = "pred(obs:x)"
    /\ out # <<>>

C10_State ==
    /\ pc = "ready" =>
         /\ model.t = "Results"
         /\ IsStr(formula)
         /\ IsStr(internal_dependent_var)
         /\ internal_independent_vars.t = "list"
         /\ coefficients.t = "Series"
         /\ confidences.t = "Series"
    /\ lastCall \in {"summary", "plot"} => pc = "ready"
    /\ model.t \in {"OLS", "Results"} => IsStr(formula)
    /\ internal_independent_vars.t = "list" => model.t \in {"OLS", "Results"}
    /\ model.t = "Results" =>
         /\ internal_independent_vars.t = "list"
         /\ IsStr(internal_dependent_var)
    /\ (coefficients.t = "Series" \/ confidences.t = "Series") => model.t = "Results"

C10_Step ==
    /\ (internal_independent_vars'.t = "list" /\ internal_independent_vars.t # "list")
         => (model.t = "OLS" /\ model' = model)
    /\ (model'.t = "Results" /\ model.t # "Results")
         => (model.t = "OLS" /\ coefficients'.t = "Series" /\ confidences'.t = "Series")
    /\ model.t = "Results" => model' = model

\* C10: the constructor builds the formula, defines the unfit model, reads
\* the names from the model while it is unfit, and fits last and once;
\* coefficients and confidences exist only after the fit, and whenever
\* summary() or plot() can be called everything is set and the model fitted.
C10_Formula == [](C10_State) /\ [][C10_Step]_vars

C10_Witness ==
    /\ pc = "ready"
    /\ lastCall = "plot"
    /\ model.t = "Results"
    /\ Len(model.params) = Len(internal_independent_vars.v)
    /\ independent_vars = List(<<Str("a")>>)
====
